---------------------------- MODULE Spec2Model ----------------------------
(***************************************************************************)
(* The TFX extern registry and extern value resolver of alkahest-renderer  *)
(* (crates/alkahest-renderer/src/tfx/externs.rs): the extern_struct!       *)
(* field tables, Extern::get_field, ExternStorage::get_value_inner and     *)
(* ExternStorage::get_value with its diagnostic error map; the RwLock      *)
(* around that map under concurrent evaluators; TextureView; the technique *)
(* loader (src/loaders/technique.rs); and the TFX bytecode parser and      *)
(* interpreter the loader and the resolver serve.                          *)
(***************************************************************************)
EXTENDS Integers, Sequences, FiniteSets, TLC

VARIABLES
    storage,   \* ExternStorage's eight Option<struct> slots, by TfxExtern discriminant
    errors,    \* ExternStorage::errors: key string -> TfxExpressionError
    req,       \* the arguments of a pending lookup (SpecInner), or NoReq
    ret,       \* what the most recent lookup returned, or NoCall
    failed,    \* history: how many times each (ext, offset, type, outcome) failure happened
    thread,    \* concurrent evaluators inside get_value: position and locals of each
    lock,      \* the RwLock around errors: a writer flag and the number of readers
    codec,     \* a bytecode stream, where it came from and what parse_all made of it
    load,      \* a technique handed to the loader and what the loader returned
    vm,        \* a TfxBytecodeInterpreter: program, state, instruction pointer, stack
    cbuffer    \* the destination constant-buffer image of the interpreter's stage

\* The variables of each component.
resolverVars == <<storage, errors, req, ret, failed>>
concVars == <<thread, lock>>
loadVars == <<codec, load>>
vmVars == <<vm, cbuffer>>

vars == <<storage, errors, req, ret, failed, thread, lock, codec, load, vm, cbuffer>>

---------------------------------------------------------------------------
\* Bounds of the model.

\* Instances are generated from seeds 0..MaxSeed (seed 0 is Default::default()).
MaxSeed == 1

\* Spec performs at most MaxFail failed resolutions in one run.
MaxFail == 2

\* SpecConc runs NumEvaluators threads that call get_value on one ExternStorage.
NumEvaluators == 2

\* SpecConc lets at most MaxReaders read guards of the error map exist at once.
MaxReaders == 2

---------------------------------------------------------------------------
\* pub enum TfxExtern, #[br(repr(u8))]: variant names in discriminant order, None = 0.

TfxExternNames ==
  << "None", "Frame", "View", "Deferred",
     "DeferredLight", "DeferredUberLight", "DeferredShadow", "Atmosphere",
     "RigidModel", "EditorMesh", "EditorMeshMaterial", "EditorDecal",
     "EditorTerrain", "EditorTerrainPatch", "EditorTerrainDebug", "SimpleGeometry",
     "UiFont", "CuiView", "CuiObject", "CuiBitmap",
     "CuiVideo", "CuiStandard", "CuiHud", "CuiScreenspaceBoxes",
     "TextureVisualizer", "Generic", "Particle", "ParticleDebug",
     "GearDyeVisualizationMode", "ScreenArea", "Mlaa", "Msaa",
     "Hdao", "DownsampleTextureGeneric", "DownsampleDepth", "Ssao",
     "VolumetricObscurance", "Postprocess", "TextureSet", "Transparent",
     "Vignette", "GlobalLighting", "ShadowMask", "ObjectEffect",
     "Decal", "DecalSetTransform", "DynamicDecal", "DecoratorWind",
     "TextureCameraLighting", "VolumeFog", "Fxaa", "Smaa",
     "Letterbox", "DepthOfField", "PostprocessInitialDownsample", "CopyDepth",
     "DisplacementMotionBlur", "DebugShader", "MinmaxDepth", "SdsmBiasAndScale",
     "SdsmBiasAndScaleTextures", "ComputeShadowMapData", "ComputeLocalLightShadowMapData", "BilateralUpsample",
     "HealthOverlay", "LightProbeDominantLight", "LightProbeLightInstance", "Water",
     "LensFlare", "ScreenShader", "Scaler", "GammaControl",
     "SpeedtreePlacements", "Reticle", "Distortion", "WaterDebug",
     "ScreenAreaInput", "WaterDepthPrepass", "OverheadVisibilityMap", "ParticleCompute",
     "CubemapFiltering", "ParticleFastpath", "VolumetricsPass", "TemporalReprojection",
     "FxaaCompute", "VbCopyCompute", "UberDepth", "GearDye",
     "Cubemaps", "ShadowBlendWithPrevious", "DebugShadingOutput", "Ssao3d",
     "WaterDisplacement", "PatternBlending", "UiHdrTransform", "PlayerCenteredCascadedGrid",
     "SoftDeform" >>

TfxExtern == 0 .. (Len(TfxExternNames) - 1)

\* {ext:?}: the derived Debug of a TfxExtern prints the variant name.
DebugExtern(ext) == TfxExternNames[ext + 1]

\* The discriminants of the variants the model names.
None == 0
Frame == 1
View == 2
Deferred == 3
DeferredLight == 4
RigidModel == 8
SimpleGeometry == 15
Transparent == 39
Decal == 44
SoftDeform == 96

---------------------------------------------------------------------------
\* Field types used by the extern structs, and the types a caller may request.

FieldTypes == {"f32", "u64", "Vec4", "Mat4", "TextureView"}

\* "u32" stands for a requested T that no field declares.
Types == FieldTypes \cup {"u32"}

\* One row of an extern_struct! table. flag is "unmarked" when the row has no
\* "> unimplemented(..)" suffix, else the literal given to it.
F(off, name, ty, flag) == [off |-> off, name |-> name, ty |-> ty, flag |-> flag]

\* extern_struct! { struct Frame("frame") }: offset => field: type > unimplemented(flag)
FrameFields ==
  << F(\h00, "unk00", "f32", "false"),
     F(\h04, "unk04", "f32", "false"),
     F(\h0c, "unk0c", "f32", "true"),
     F(\h10, "unk10", "f32", "true"),
     F(\h14, "unk14", "f32", "true"),
     F(\h1c, "unk1c", "f32", "false"),
     F(\h20, "unk20", "f32", "true"),
     F(\h24, "unk24", "f32", "true"),
     F(\h28, "unk28", "f32", "true"),
     F(\h2c, "unk2c", "f32", "true"),
     F(\h40, "unk40", "f32", "true"),
     F(\h70, "unk70", "f32", "true"),
     F(\h78, "unk78", "u64", "true"),
     F(\h80, "unk80", "u64", "true"),
     F(\h88, "unk88", "u64", "true"),
     F(\h90, "unk90", "u64", "true"),
     F(\h98, "unk98", "u64", "true"),
     F(\ha0, "unka0", "u64", "true"),
     F(\ha8, "specular_lobe_lookup", "TextureView", "unmarked"),
     F(\hb0, "specular_lobe_3d_lookup", "TextureView", "unmarked"),
     F(\hb8, "specular_tint_lookup", "TextureView", "unmarked"),
     F(\hc0, "iridescence_lookup", "TextureView", "unmarked"),
     F(\hd0, "unkd0", "Vec4", "true"),
     F(\h150, "unk150", "Vec4", "true"),
     F(\h160, "unk160", "Vec4", "true"),
     F(\h170, "unk170", "Vec4", "true"),
     F(\h180, "unk180", "Vec4", "true"),
     F(\h190, "unk190", "f32", "true"),
     F(\h194, "unk194", "f32", "true"),
     F(\h1a0, "unk1a0", "Vec4", "false"),
     F(\h1b0, "unk1b0", "Vec4", "false"),
     F(\h1e0, "unk1e0", "u64", "true"),
     F(\h1e8, "unk1e8", "u64", "true"),
     F(\h1f0, "unk1f0", "u64", "true") >>

\* extern_struct! { struct View("view") }: offset => field: type > unimplemented(flag)
ViewFields ==
  << F(\h00, "resolution_width", "f32", "unmarked"),
     F(\h04, "resolution_height", "f32", "unmarked"),
     F(\h10, "view_miscellaneous", "Vec4", "false"),
     F(\h20, "position", "Vec4", "unmarked"),
     F(\h30, "unk30", "Vec4", "false"),
     F(\h40, "world_to_camera", "Mat4", "unmarked"),
     F(\h80, "camera_to_projective", "Mat4", "unmarked"),
     F(\hc0, "camera_to_world", "Mat4", "unmarked"),
     F(\h100, "projective_to_camera", "Mat4", "unmarked"),
     F(\h140, "world_to_projective", "Mat4", "unmarked"),
     F(\h180, "projective_to_world", "Mat4", "unmarked"),
     F(\h1c0, "target_pixel_to_world", "Mat4", "unmarked"),
     F(\h200, "target_pixel_to_camera", "Mat4", "unmarked"),
     F(\h240, "unk240", "Mat4", "true"),
     F(\h280, "combined_tptoc_wtoc", "Mat4", "unmarked"),
     F(\h2c0, "unk2c0", "Mat4", "true") >>

\* extern_struct! { struct Deferred("deferred") }: offset => field: type > unimplemented(flag)
DeferredFields ==
  << F(\h00, "unk00", "Vec4", "false"),
     F(\h10, "unk10", "Vec4", "true"),
     F(\h20, "unk20", "Vec4", "true"),
     F(\h30, "unk30", "f32", "true"),
     F(\h38, "deferred_depth", "TextureView", "unmarked"),
     F(\h48, "deferred_rt0", "TextureView", "unmarked"),
     F(\h50, "deferred_rt1", "TextureView", "unmarked"),
     F(\h58, "deferred_rt2", "TextureView", "unmarked"),
     F(\h60, "light_diffuse", "TextureView", "unmarked"),
     F(\h68, "light_specular", "TextureView", "unmarked"),
     F(\h70, "light_ibl_specular", "TextureView", "unmarked"),
     F(\h78, "unk78", "TextureView", "true"),
     F(\h80, "unk80", "TextureView", "true"),
     F(\h88, "unk88", "TextureView", "true"),
     F(\h90, "unk90", "TextureView", "true"),
     F(\h98, "unk98", "TextureView", "true") >>

\* extern_struct! { struct DeferredLight("deferred_light") }: offset => field: type > unimplemented(flag)
DeferredLightFields ==
  << F(\h40, "unk40", "Mat4", "false"),
     F(\h80, "unk80", "Mat4", "false"),
     F(\hc0, "unkc0", "Vec4", "false"),
     F(\hd0, "unkd0", "Vec4", "false"),
     F(\he0, "unke0", "Vec4", "false"),
     F(\hf0, "unkf0", "Vec4", "false"),
     F(\h100, "unk100", "Vec4", "false"),
     F(\h110, "unk110", "f32", "false"),
     F(\h114, "unk114", "f32", "false"),
     F(\h118, "unk118", "f32", "false"),
     F(\h11c, "unk11c", "f32", "false"),
     F(\h120, "unk120", "f32", "false") >>

\* extern_struct! { struct Transparent("transparent") }: offset => field: type > unimplemented(flag)
TransparentFields ==
  << F(\h00, "unk00", "TextureView", "false"),
     F(\h08, "unk08", "TextureView", "false"),
     F(\h10, "unk10", "TextureView", "false"),
     F(\h18, "unk18", "TextureView", "false"),
     F(\h20, "unk20", "TextureView", "false"),
     F(\h28, "unk28", "TextureView", "false"),
     F(\h30, "unk30", "TextureView", "false"),
     F(\h38, "unk38", "TextureView", "false"),
     F(\h40, "unk40", "TextureView", "false"),
     F(\h48, "unk48", "TextureView", "false"),
     F(\h50, "unk50", "TextureView", "false"),
     F(\h58, "unk58", "TextureView", "false"),
     F(\h60, "unk60", "TextureView", "false"),
     F(\h70, "unk70", "Vec4", "true"),
     F(\h80, "unk80", "Vec4", "true"),
     F(\h90, "unk90", "Vec4", "true"),
     F(\ha0, "unka0", "Vec4", "true"),
     F(\hb0, "unkb0", "Vec4", "true") >>

\* extern_struct! { struct SimpleGeometry("simple_geometry") }: offset => field: type > unimplemented(flag)
SimpleGeometryFields ==
  << F(\h00, "transform", "Mat4", "unmarked") >>

\* extern_struct! { struct Decal("decal") }: offset => field: type > unimplemented(flag)
DecalFields ==
  << F(\h00, "unk00", "TextureView", "true"),
     F(\h08, "unk08", "TextureView", "unmarked"),
     F(\h10, "unk10", "Vec4", "true"),
     F(\h20, "unk20", "Vec4", "true") >>

\* extern_struct! { struct RigidModel("rigid_model") }: offset => field: type > unimplemented(flag)
RigidModelFields ==
  << F(\h00, "mesh_to_world", "Mat4", "unmarked"),
     F(\h40, "position_scale", "Vec4", "unmarked"),
     F(\h50, "position_offset", "Vec4", "unmarked"),
     F(\h60, "texcoord0_scale_offset", "Vec4", "unmarked"),
     F(\h70, "dynamic_sh_ao_values", "Vec4", "unmarked") >>
\* The structs that have a backing field in ExternStorage, by discriminant.
Backed == {Frame, View, Deferred, DeferredLight, Transparent, RigidModel, Decal, SimpleGeometry}

FieldsOf(k) ==
    CASE k = Frame          -> FrameFields
      [] k = View           -> ViewFields
      [] k = Deferred       -> DeferredFields
      [] k = DeferredLight  -> DeferredLightFields
      [] k = Transparent    -> TransparentFields
      [] k = RigidModel     -> RigidModelFields
      [] k = Decal          -> DecalFields
      [] k = SimpleGeometry -> SimpleGeometryFields

\* fn get_name(): the $name_c literal of the struct.
get_name(k) ==
    CASE k = Frame          -> "frame"
      [] k = View           -> "view"
      [] k = Deferred       -> "deferred"
      [] k = DeferredLight  -> "deferred_light"
      [] k = Transparent    -> "transparent"
      [] k = RigidModel     -> "rigid_model"
      [] k = Decal          -> "decal"
      [] k = SimpleGeometry -> "simple_geometry"

---------------------------------------------------------------------------
\* #[repr(C)] layout of the generated struct: fields in declaration order, each
\* at the next multiple of its alignment. f32 is 4 bytes; u64 and TextureView
\* (an enum around one COM pointer, transmuted from a u64) are 8; glam's Vec4
\* is 16 bytes aligned to 16; Mat4 is four Vec4 columns.

SizeOf(ty) ==
    CASE ty = "f32" -> 4
      [] ty = "u32" -> 4
      [] ty = "u64" -> 8
      [] ty = "TextureView" -> 8
      [] ty = "Vec4" -> 16
      [] ty = "Mat4" -> 64

AlignOf(ty) == IF ty = "Mat4" THEN 16 ELSE SizeOf(ty)

AlignUp(n, a) == ((n + a - 1) \div a) * a

RECURSIVE EndOf(_, _)
\* The first byte after field i of the table fs (0 for i = 0).
EndOf(fs, i) ==
    IF i = 0 THEN 0
    ELSE AlignUp(EndOf(fs, i - 1), AlignOf(fs[i].ty)) + SizeOf(fs[i].ty)

\* The byte offset of every field of a #[repr(C)] struct with the table fs.
ReprC(fs) == [i \in 1 .. Len(fs) |-> EndOf(fs, i) - SizeOf(fs[i].ty)]

Layout == [k \in Backed |-> ReprC(FieldsOf(k))]

\* std::mem::offset_of!(Self, $field) for the i-th field of struct k.
OffsetOf(k, i) == Layout[k][i]

---------------------------------------------------------------------------
\* Values. A value is its type and its bits, a tuple of numbers; <<0>> is the
\* type's Default.

Val(ty, bits) == [ty |-> ty, bits |-> bits]

\* What a read through a *const T yields when no field of type T starts there.
Reinterpreted(ty) == [ty |-> ty, bits |-> <<-1>>]

\* An instance of struct k: the value of each field, by declaration index.
\* Seed 0 is Default::default(); seed s > 0 gives field i the bits s * i, so
\* that no two fields of the instance hold the same bits.
SeedInstance(k, s) ==
    [i \in 1 .. Len(FieldsOf(k)) |-> Val(FieldsOf(k)[i].ty, <<s * i>>)]

\* test_externs: Deferred { unk00: Vec4::new(1.0, 2.0, 3.0, 4.0), ..Default::default() }
TestDeferred ==
    [SeedInstance(Deferred, 0) EXCEPT ![1] = Val("Vec4", <<1, 2, 3, 4>>)]

\* test_externs: View { resolution_width: 1920.0, resolution_height: 1080.0, .. }
TestView ==
    [SeedInstance(View, 0) EXCEPT ![1] = Val("f32", <<1920>>), ![2] = Val("f32", <<1080>>)]

Instances(k) ==
    {SeedInstance(k, s) : s \in 0 .. MaxSeed}
        \cup (IF k = Deferred THEN {TestDeferred} ELSE {})
        \cup (IF k = View THEN {TestView} ELSE {})

\* The bytes of `self` seen from `ptr`: the value of the field that starts at
\* byte offset `at`, read as a T.
PtrRead(k, self, at, T) ==
    LET js == {j \in 1 .. Len(FieldsOf(k)) : OffsetOf(k, j) = at}
    IN  IF js = {} THEN Reinterpreted(T)
        ELSE LET v == self[CHOOSE j \in js : TRUE]
             IN  IF v.ty = T THEN v ELSE Reinterpreted(T)

---------------------------------------------------------------------------
\* Option<T>: None is the empty tuple, Some(x) the one-element tuple.
NoneOpt == <<>>
Some(x) == <<x>>

\* enum ExternValue<T>

Value(v) == [tag |-> "Value", v |-> v]
Unimplemented == [tag |-> "Unimplemented"]
InvalidType(t) == [tag |-> "InvalidType", t |-> t]
FieldNotFound == [tag |-> "FieldNotFound"]
ExternNotFound == [tag |-> "ExternNotFound"]
ExternNotSet == [tag |-> "ExternNotSet"]

\* Faulty variant of MatchOffset: an offset matches the field whose byte
\* extent [off, off + size) contains it.
MatchOffset_range(k, offset) ==
    LET is == {i \in 1 .. Len(FieldsOf(k)) :
                 /\ FieldsOf(k)[i].off <= offset
                 /\ offset < FieldsOf(k)[i].off + SizeOf(FieldsOf(k)[i].ty)}
    IN  IF is = {} THEN 0 ELSE CHOOSE i \in is : \A j \in is : i <= j

\* `match offset { $($field_offset => ..)* }`: the first arm whose literal
\* equals the offset, as an index into the table; 0 for the `_` arm.
MatchOffset(k, offset) ==
    LET is == {i \in 1 .. Len(FieldsOf(k)) : FieldsOf(k)[i].off = offset}
    IN  IF is = {} THEN 0 ELSE CHOOSE i \in is : \A j \in is : i <= j

\* Faulty variant of get_field: reads at the registered $field_offset instead
\* of offset_of!(Self, $field).
get_field_registered_offset(k, self, offset, T) ==
    LET i == MatchOffset(k, offset)
    IN  IF i = 0 THEN FieldNotFound
        ELSE LET f == FieldsOf(k)[i]
             IN  IF f.flag = "true" THEN Unimplemented
                 ELSE IF T = f.ty
                      THEN Value(PtrRead(k, self, f.off, T))
                      ELSE InvalidType(<<f.name, ": ", f.ty>>)

\* Faulty variant of get_field: compares the TypeId before looking at the
\* unimplemented flag.
get_field_type_first(k, self, offset, T) ==
    LET i == MatchOffset(k, offset)
    IN  IF i = 0 THEN FieldNotFound
        ELSE LET f == FieldsOf(k)[i]
             IN  IF T # f.ty THEN InvalidType(<<f.name, ": ", f.ty>>)
                 ELSE IF f.flag = "true" THEN Unimplemented
                      ELSE Value(PtrRead(k, self, OffsetOf(k, i), T))

\* Faulty variant of get_field: no TypeId comparison, the bytes are read as T.
get_field_unchecked(k, self, offset, T) ==
    LET i == MatchOffset(k, offset)
    IN  IF i = 0 THEN FieldNotFound
        ELSE LET f == FieldsOf(k)[i]
             IN  IF f.flag = "true" THEN Unimplemented
                 ELSE Value(PtrRead(k, self, OffsetOf(k, i), T))

\* fn get_field<T>(&self, offset) -> ExternValue<T> of struct k.
get_field(k, self, offset, T) ==
    LET i == MatchOffset(k, offset)
    IN  IF i = 0 THEN FieldNotFound
        ELSE LET f == FieldsOf(k)[i]
             IN  IF f.flag = "true" THEN Unimplemented
                 ELSE IF T = f.ty
                      THEN Value(PtrRead(k, self, OffsetOf(k, i), T))
                      ELSE InvalidType(<<f.name, ": ", f.ty>>)

\* fn get_field_name(offset) -> Option<&'static str> of struct k.
get_field_name(k, offset) ==
    LET i == MatchOffset(k, offset)
    IN  IF i = 0 THEN NoneOpt ELSE Some(FieldsOf(k)[i].name)

\* Faulty variant of get_field_path: fields marked unimplemented(true) have
\* no path.
get_field_path_implemented_only(ext, offset) ==
    IF ext \in Backed /\ MatchOffset(ext, offset) # 0
       /\ FieldsOf(ext)[MatchOffset(ext, offset)].flag # "true"
    THEN Some(<<get_name(ext), "->", FieldsOf(ext)[MatchOffset(ext, offset)].name>>)
    ELSE NoneOpt

\* pub fn get_field_path(ext, offset) -> Option<String>: for the kinds its
\* extern_lookup! lists, get_field_name(offset) mapped through
\* format!("{}->{f}", get_name()), as the tuple of the string's pieces.
get_field_path(ext, offset) ==
    IF ext \in {Frame, View, Deferred, DeferredLight, Transparent, RigidModel,
                Decal, SimpleGeometry}
    THEN IF get_field_name(ext, offset) = NoneOpt THEN NoneOpt
         ELSE Some(<<get_name(ext), "->", get_field_name(ext, offset)[1]>>)
    ELSE NoneOpt

---------------------------------------------------------------------------
\* struct ExternStorage

\* #[derive(Default)]: every slot None, the error map empty.
DefaultSlots == [k \in Backed |-> NoneOpt]
NoErrors == <<>>

\* Faulty variant of get_value_inner: the `_` arm answers ExternNotSet.
get_value_inner_wildcard_not_set(st, ext, offset, T) ==
    IF ext \in Backed
    THEN IF st[ext] = NoneOpt
         THEN ExternNotSet
         ELSE get_field(ext, st[ext][1], offset, T)
    ELSE ExternNotSet

\* Faulty variant of get_value_inner: an empty slot is looked up as the
\* struct's Default (unwrap_or_default before get_field).
get_value_inner_default_slot(st, ext, offset, T) ==
    IF ext \in Backed
    THEN IF st[ext] = NoneOpt
         THEN get_field(ext, SeedInstance(ext, 0), offset, T)
         ELSE get_field(ext, st[ext][1], offset, T)
    ELSE ExternNotFound

\* fn get_value_inner<T>(&self, ext, offset) -> ExternValue<T>: the
\* extern_lookup! match over the eight backed variants, `_` for the rest.
get_value_inner(st, ext, offset, T) ==
    IF ext \in Backed
    THEN IF st[ext] = NoneOpt
         THEN ExternNotSet
         ELSE get_field(ext, st[ext][1], offset, T)
    ELSE ExternNotFound

RECURSIVE HexDigits(_)
HexDigits(n) ==
    LET d == <<"0", "1", "2", "3", "4", "5", "6", "7",
               "8", "9", "A", "B", "C", "D", "E", "F">>
    IN  IF n < 16 THEN <<d[n + 1]>>
        ELSE HexDigits(n \div 16) \o <<d[(n % 16) + 1]>>

\* format!("0x{offset:X}")
Hex(offset) == <<"0x">> \o HexDigits(offset)

\* util::short_type_name::<T>(): the name of T without its module path. The
\* model's types are already named that way.
short_type_name(T) == T

\* Faulty variant of ErrorKey: the requested type is left out of the key.
ErrorKey_no_type(r, ext, offset, T) ==
    CASE r.tag = "Unimplemented" ->
            <<"Extern field @ ">> \o Hex(offset)
                \o <<" for ", DebugExtern(ext), " is unimplemented">>
      [] r.tag = "InvalidType" ->
            <<"Extern field @ ">> \o Hex(offset)
                \o <<" for ", DebugExtern(ext), " has invalid type">>
      [] r.tag = "FieldNotFound" ->
            <<"Extern field @ ">> \o Hex(offset)
                \o <<" for ", DebugExtern(ext), " not found">>
      [] r.tag = "ExternNotFound" -> <<"Extern ", DebugExtern(ext), " not found">>
      [] r.tag = "ExternNotSet" -> <<"Extern ", DebugExtern(ext), " not set">>

\* The format! string that keys the error map, as the tuple of its pieces.
ErrorKey(r, ext, offset, T) ==
    CASE r.tag = "Unimplemented" ->
            <<"Extern field @ ">> \o Hex(offset)
                \o <<" for ", DebugExtern(ext), " is unimplemented (type ", short_type_name(T), ")">>
      [] r.tag = "InvalidType" ->
            <<"Extern field @ ">> \o Hex(offset)
                \o <<" for ", DebugExtern(ext), " has invalid type (expected ", short_type_name(T), ")">>
      [] r.tag = "FieldNotFound" ->
            <<"Extern field @ ">> \o Hex(offset)
                \o <<" for ", DebugExtern(ext), " not found (type ", short_type_name(T), ")">>
      [] r.tag = "ExternNotFound" -> <<"Extern ", DebugExtern(ext), " not found">>
      [] r.tag = "ExternNotSet" -> <<"Extern ", DebugExtern(ext), " not set">>

\* The TfxExpressionErrorType a new entry is created with.
ErrorType(r, offset) ==
    CASE r.tag = "Unimplemented" -> [tag |-> "Unimplemented", arg |-> <<offset>>]
      [] r.tag = "InvalidType" -> [tag |-> "InvalidType", arg |-> r.t]
      [] r.tag = "FieldNotFound" -> [tag |-> "Unimplemented", arg |-> <<offset>>]
      [] r.tag = "ExternNotFound" -> [tag |-> "ExternNotSet", arg |-> <<"Extern not found">>]
      [] r.tag = "ExternNotSet" -> [tag |-> "ExternNotSet", arg |-> <<"Extern not set">>]

\* The anyhow! message of the Err.
ErrorMessage(r, ext, offset) ==
    CASE r.tag = "Unimplemented" -> <<"Unimplemented field: ", DebugExtern(ext), "@">> \o Hex(offset)
      [] r.tag = "InvalidType" -> <<"Invalid type: ", DebugExtern(ext), "@">> \o Hex(offset)
      [] r.tag = "FieldNotFound" -> <<"Field not found: ", DebugExtern(ext), "@">> \o Hex(offset)
      [] r.tag = "ExternNotFound" -> <<"Extern not found: ", DebugExtern(ext)>>
      [] r.tag = "ExternNotSet" -> <<"Extern not set: ", DebugExtern(ext)>>

\* Faulty variant of RecordError: a new entry starts at repeat_count 1.
RecordError_from_one(errs, key, error_type) ==
    LET e == IF key \in DOMAIN errs THEN errs
             ELSE errs @@ (key :> [error_type |-> error_type, repeat_count |-> 1])
    IN  [e EXCEPT ![key].repeat_count = @ + 1]

\* self.errors.write().entry(key).or_insert_with(|| TfxExpressionError {
\*     error_type, repeat_count: 0 }).repeat_count += 1
RecordError(errs, key, error_type) ==
    LET e == IF key \in DOMAIN errs THEN errs
             ELSE errs @@ (key :> [error_type |-> error_type, repeat_count |-> 0])
    IN  [e EXCEPT ![key].repeat_count = @ + 1]

\* anyhow::Result<T>
Ok(v) == [ok |-> TRUE, val |-> Some(v), msg |-> NoneOpt]
Err(msg) == [ok |-> FALSE, val |-> NoneOpt, msg |-> msg]

\* Faulty variant of get_value: a failure that already has an entry is
\* counted but answered with Ok(T::default()).
get_value_quiet_repeat(st, errs, ext, offset, T) ==
    LET r == get_value_inner(st, ext, offset, T)
    IN  IF r.tag = "Value"
        THEN [out |-> Ok(r.v), errors |-> errs]
        ELSE [out |-> IF ErrorKey(r, ext, offset, T) \in DOMAIN errs
                      THEN Ok(Val(T, <<0>>))
                      ELSE Err(ErrorMessage(r, ext, offset)),
              errors |-> RecordError(errs, ErrorKey(r, ext, offset, T),
                                     ErrorType(r, offset))]

\* A variant of get_value's match whose Value arm empties the error map.
get_value_match_clears_on_value(r, errs, ext, offset, T) ==
    IF r.tag = "Value"
    THEN [out |-> Ok(r.v), errors |-> NoErrors]
    ELSE [out |-> Err(ErrorMessage(r, ext, offset)),
          errors |-> RecordError(errs, ErrorKey(r, ext, offset, T),
                                 ErrorType(r, offset))]

\* Faulty variant of get_value's `match`: a success is counted too, in the
\* entry of an unset extern.
get_value_match_counts_value(r, errs, ext, offset, T) ==
    IF r.tag = "Value"
    THEN [out |-> Ok(r.v),
          errors |-> RecordError(errs, ErrorKey(ExternNotSet, ext, offset, T),
                                 ErrorType(ExternNotSet, offset))]
    ELSE [out |-> Err(ErrorMessage(r, ext, offset)),
          errors |-> RecordError(errs, ErrorKey(r, ext, offset, T),
                                 ErrorType(r, offset))]

\* The arms of get_value's `match` for the inner lookup's result r.
get_value_match(r, errs, ext, offset, T) ==
    IF r.tag = "Value"
    THEN [out |-> Ok(r.v), errors |-> errs]
    ELSE [out |-> Err(ErrorMessage(r, ext, offset)),
          errors |-> RecordError(errs, ErrorKey(r, ext, offset, T),
                                 ErrorType(r, offset))]

\* fn get_value<T>(&self, ext, offset) -> anyhow::Result<T>: what it returns
\* and the error map it leaves.
get_value(st, errs, ext, offset, T) ==
    CHOOSE g \in {get_value_match(r, errs, ext, offset, T) :
                     r \in {get_value_inner(st, ext, offset, T)}} : TRUE

\* T::default(): the value whose bits are <<0>>.
DefaultOf(T) == Val(T, <<0>>)

\* Result::unwrap_or_default
unwrap_or_default(res, T) == IF res.ok THEN res.val[1] ELSE DefaultOf(T)

\* Faulty variant of get_value_or_default: the default is substituted for the
\* inner lookup's failure directly, without going through get_value.
get_value_or_default_unrecorded(st, errs, ext, offset, T) ==
    LET r == get_value_inner(st, ext, offset, T)
    IN  [out |-> IF r.tag = "Value" THEN r.v ELSE DefaultOf(T), errors |-> errs]

\* A variant of get_value_or_default that hands out whatever bytes are at
\* the address on a failure.
get_value_or_default_unchecked(st, errs, ext, offset, T) ==
    LET r == get_value_inner(st, ext, offset, T)
    IN  [out |-> IF r.tag = "Value" THEN r.v ELSE Reinterpreted(T),
         errors |-> get_value(st, errs, ext, offset, T).errors]

\* fn get_value_or_default<T>(&self, ext, offset) -> T: what it returns and
\* the error map it leaves.
get_value_or_default(st, errs, ext, offset, T) ==
    LET g == get_value(st, errs, ext, offset, T)
    IN  [out |-> unwrap_or_default(g.out, T), errors |-> g.errors]

---------------------------------------------------------------------------
\* enum TextureView

TextureView_Null == [tag |-> "Null", srv |-> NoneOpt]
RawSRV(v) == [tag |-> "RawSRV", srv |-> Some(v)]

\* The TextureView held by a field value: Default (bits <<0>>) is Null, any
\* other bits are the RawSRV of the interface pointer with those bits.
TextureViewOf(v) == IF v.bits = <<0>> THEN TextureView_Null ELSE RawSRV(v.bits[1])

\* Faulty variant of view: Null is answered with a zeroed handle.
view_zeroed_for_null(self) ==
    IF self.tag = "Null" THEN Some(0) ELSE Some(self.srv[1])

\* fn view(&self, am) -> Option<ID3D11ShaderResourceView>
view(self) ==
    IF self.tag = "Null" THEN NoneOpt ELSE Some(self.srv[1])

\* fn view_unchecked(&self, am) -> ID3D11ShaderResourceView: the view, or
\* transmute(0u64).
view_unchecked(self) ==
    LET v == view(self) IN IF v = NoneOpt THEN 0 ELSE v[1]

---------------------------------------------------------------------------
\* Inputs.

\* Offsets that no struct registers: 0x08 and 0x44 lie inside registered
\* fields (View's world_to_camera spans 0x40..0x80), 0x1000 lies past all.
UnregisteredOffsets == {\h08, \h44, \h1000}

RegisteredOffsets(k) == {FieldsOf(k)[i].off : i \in 1 .. Len(FieldsOf(k))}

AllOffsets == UnregisteredOffsets \cup UNION {RegisteredOffsets(k) : k \in Backed}

Request(ext, offset, T) == [ext |-> ext, offset |-> offset, ty |-> T]
NoReq == [ext |-> -1, offset |-> 0, ty |-> "none"]

\* SpecInner: every offset and type for the backed kinds, every kind with a
\* few offsets.
InnerRequests ==
    {Request(k, o, T) : k \in Backed, o \in AllOffsets, T \in Types}
        \cup {Request(k, o, T) : k \in TfxExtern, o \in {\h00, \h44}, T \in Types}

\* SpecInner: no slot set, one slot set, or every slot set.
InnerStorages ==
    {DefaultSlots}
        \cup UNION {{[DefaultSlots EXCEPT ![k] = Some(v)] : v \in Instances(k)} : k \in Backed}
        \cup {[k \in Backed |-> Some(SeedInstance(k, s))] : s \in 0 .. MaxSeed}

\* Spec: the kinds, offsets and types the resolver is called with.
SpecKinds == {None, View, Deferred, SoftDeform}
SpecOffsets == {\h00, \h10, \h44}
SpecTypes == {"f32", "Vec4"}

\* SpecDiag: one backed and one unbacked kind; View's resolution_width,
\* an unregistered offset and the unimplemented unk240.
DiagKinds == {None, View}
DiagOffsets == {\h00, \h44, \h240}
DiagTypes == {"f32", "Vec4"}

NoCall == [op |-> "none", req |-> NoReq, out |-> NoneOpt]
NoFailures == <<>>

\* The history with one more occurrence of h, unless h is a success.
LogFailure(log, h) ==
    IF h.tag = "Value" THEN log
    ELSE IF h \in DOMAIN log THEN [log EXCEPT ![h] = @ + 1]
    ELSE log @@ (h :> 1)

NumFailed == 
    LET RECURSIVE Sum(_)
        Sum(S) == IF S = {} THEN 0
                  ELSE LET x == CHOOSE x \in S : TRUE IN failed[x] + Sum(S \ {x})
    IN  Sum(DOMAIN failed)

---------------------------------------------------------------------------
\* Actions.

\* The renderer assigns a pub slot of ExternStorage: Some(instance) or None.
SetSlot(k, slot) ==
    /\ req = NoReq
    /\ storage' = [storage EXCEPT ![k] = slot]
    /\ ret' = NoCall
    /\ UNCHANGED <<errors, req, failed, concVars, loadVars, vmVars>>

\* The renderer replaces the ExternStorage by ExternStorage::default().
Reset ==
    /\ req = NoReq
    /\ storage' = DefaultSlots
    /\ errors' = NoErrors
    /\ ret' = NoCall
    /\ failed' = NoFailures
    /\ UNCHANGED <<req, concVars, loadVars, vmVars>>

\* The effect of a resolver call `op` that returned g.out, left the error map
\* g.errors and whose inner lookup yielded r.
Resolved(op, g, r, ext, offset, T) ==
    /\ r.tag = "Value" \/ NumFailed < MaxFail
    /\ errors' = g.errors
    /\ ret' = [op |-> op, req |-> Request(ext, offset, T), out |-> g.out]
    /\ failed' = LogFailure(failed, [ext |-> ext, offset |-> offset, ty |-> T, tag |-> r.tag])
    /\ UNCHANGED <<storage, req, concVars, loadVars, vmVars>>

\* A call of get_value::<T>(ext, offset).
GetValue(ext, offset, T) ==
    /\ req = NoReq
    /\ Resolved("get_value", get_value(storage, errors, ext, offset, T),
                get_value_inner(storage, ext, offset, T), ext, offset, T)

\* A call of get_value_or_default::<T>(ext, offset).
GetValueOrDefault(ext, offset, T) ==
    /\ req = NoReq
    /\ Resolved("get_value_or_default",
                get_value_or_default(storage, errors, ext, offset, T),
                get_value_inner(storage, ext, offset, T), ext, offset, T)

\* The pending lookup, made on the struct itself: storage[ext].get_field::<T>(offset).
CallGetField ==
    /\ req # NoReq
    /\ ret = NoCall
    /\ req.ext \in Backed
    /\ storage[req.ext] # NoneOpt
    /\ ret' = [op |-> "get_field", req |-> req,
               out |-> get_field(req.ext, storage[req.ext][1], req.offset, req.ty)]
    /\ UNCHANGED <<storage, errors, req, failed, concVars, loadVars, vmVars>>

\* The pending lookup, made through the storage: get_value_inner::<T>(ext, offset).
CallGetValueInner ==
    /\ req # NoReq
    /\ ret = NoCall
    /\ ret' = [op |-> "get_value_inner", req |-> req,
               out |-> get_value_inner(storage, req.ext, req.offset, req.ty)]
    /\ UNCHANGED <<storage, errors, req, failed, concVars, loadVars, vmVars>>

\* ExternStorage::get_field_path(ext, offset) for the pending request's kind
\* and offset.
CallGetFieldPath ==
    /\ req # NoReq
    /\ ret = NoCall
    /\ ret' = [op |-> "get_field_path", req |-> req,
               out |-> get_field_path(req.ext, req.offset)]
    /\ UNCHANGED <<storage, errors, req, failed, concVars, loadVars, vmVars>>

\* The lookup returned a TextureView.
ReturnedTextureView ==
    /\ ret.op \in {"get_field", "get_value_inner"}
    /\ ret.out.tag = "Value"
    /\ ret.out.v.ty = "TextureView"

\* The caller resolves the TextureView it was given: tv.view(am).
CallView ==
    /\ ReturnedTextureView
    /\ ret' = [op |-> "view", req |-> TextureViewOf(ret.out.v),
               out |-> view(TextureViewOf(ret.out.v))]
    /\ UNCHANGED <<storage, errors, req, failed, concVars, loadVars, vmVars>>

\* The caller resolves the TextureView it was given: tv.view_unchecked(am).
CallViewUnchecked ==
    /\ ReturnedTextureView
    /\ ret' = [op |-> "view_unchecked", req |-> TextureViewOf(ret.out.v),
               out |-> view_unchecked(TextureViewOf(ret.out.v))]
    /\ UNCHANGED <<storage, errors, req, failed, concVars, loadVars, vmVars>>

---------------------------------------------------------------------------
\* Concurrent callers of get_value(&self): errors is behind an RwLock.

Evaluators == 1 .. NumEvaluators

\* errors: RwLock<..>: not write-locked, no read guard alive.
Unlocked == [writer |-> FALSE, readers |-> 0]

\* A variant of the write lock that an existing writer does not exclude.
can_write_beside_writer(l) == l.readers = 0

\* self.errors.write() is granted when no guard of either kind is alive.
can_write(l) == ~l.writer /\ l.readers = 0

\* errors.read() is granted when no write guard is alive.
can_read(l) == ~l.writer

\* An evaluator outside get_value.
Idle == [pc |-> "idle", req |-> NoReq, r |-> [tag |-> "Value"], tmp |-> 0]

AllIdle == [t \in Evaluators |-> Idle]

\* .entry(key).or_insert_with(|| TfxExpressionError { error_type, repeat_count: 0 })
or_insert_with(errs, key, error_type) ==
    IF key \in DOMAIN errs THEN errs
    ELSE errs @@ (key :> [error_type |-> error_type, repeat_count |-> 0])

\* The evaluators that hold the write guard of errors.
Writers == {t \in Evaluators : thread[t].pc \in {"locked", "entry", "stored"}}

\* The evaluators whose failure is logged but not yet added to a repeat_count.
Uncounted == {t \in Evaluators : thread[t].pc \in {"failed", "locked", "entry"}}

\* The failure of evaluator t's lookup, as get_value's match arm sees it.
KeyOf(t) ==
    ErrorKey(thread[t].r, thread[t].req.ext, thread[t].req.offset, thread[t].req.ty)

\* Evaluator t calls get_value::<T>(ext, offset): the inner lookup runs; a
\* Value returns Ok at once, a failure goes on to the error map.
ConcCall(t, r, ext, offset, T) ==
    /\ thread[t].pc = "idle"
    /\ r.tag = "Value" \/ NumFailed < MaxFail
    /\ IF r.tag = "Value"
       THEN /\ ret' = [op |-> "get_value", req |-> Request(ext, offset, T), out |-> Ok(r.v)]
            /\ UNCHANGED thread
       ELSE /\ thread' = [thread EXCEPT ![t] = [pc |-> "failed",
                              req |-> Request(ext, offset, T), r |-> r, tmp |-> 0]]
            /\ UNCHANGED ret
    /\ failed' = LogFailure(failed, [ext |-> ext, offset |-> offset, ty |-> T, tag |-> r.tag])
    /\ UNCHANGED <<storage, errors, req, lock, loadVars, vmVars>>

\* self.errors.write(): evaluator t waits until the write guard is granted.
ConcWrite(t) ==
    /\ thread[t].pc = "failed"
    /\ can_write(lock)
    /\ lock' = [lock EXCEPT !.writer = TRUE]
    /\ thread' = [thread EXCEPT ![t].pc = "locked"]
    /\ UNCHANGED <<storage, errors, req, ret, failed, loadVars, vmVars>>

\* .entry(format!(..)).or_insert_with(..): the entry exists now; `+= 1` loads
\* its repeat_count.
ConcEntry(t) ==
    /\ thread[t].pc = "locked"
    /\ errors' = or_insert_with(errors, KeyOf(t),
                                ErrorType(thread[t].r, thread[t].req.offset))
    /\ thread' = [thread EXCEPT ![t].pc = "entry",
                                ![t].tmp = errors'[KeyOf(t)].repeat_count]
    /\ UNCHANGED <<storage, req, ret, failed, lock, loadVars, vmVars>>

\* .repeat_count += 1: the loaded count plus one is stored.
ConcAddAssign(t) ==
    /\ thread[t].pc = "entry"
    /\ errors' = [errors EXCEPT ![KeyOf(t)].repeat_count = thread[t].tmp + 1]
    /\ thread' = [thread EXCEPT ![t].pc = "stored"]
    /\ UNCHANGED <<storage, req, ret, failed, lock, loadVars, vmVars>>

\* End of the statement: the write guard is dropped and get_value returns Err.
ConcReturn(t) ==
    /\ thread[t].pc = "stored"
    /\ lock' = [lock EXCEPT !.writer = FALSE]
    /\ ret' = [op |-> "get_value", req |-> thread[t].req,
               out |-> Err(ErrorMessage(thread[t].r, thread[t].req.ext,
                                        thread[t].req.offset))]
    /\ thread' = [thread EXCEPT ![t] = Idle]
    /\ UNCHANGED <<storage, errors, req, failed, loadVars, vmVars>>

\* A reader of the pub errors map takes a read guard: errors.read().
ReadErrors ==
    /\ can_read(lock)
    /\ lock.readers < MaxReaders
    /\ lock' = [lock EXCEPT !.readers = @ + 1]
    /\ UNCHANGED <<storage, errors, req, ret, failed, thread, loadVars, vmVars>>

\* A reader drops its read guard.
ReadDone ==
    /\ lock.readers > 0
    /\ lock' = [lock EXCEPT !.readers = @ - 1]
    /\ UNCHANGED <<storage, errors, req, ret, failed, thread, loadVars, vmVars>>

---------------------------------------------------------------------------
\* TFX bytecode: the instruction set and its byte encoding
\* (crate::tfx::bytecode::opcodes::TfxBytecodeOp, after section 4.3 of the
\* design: an opcode byte followed by that opcode's immediate operands).

\* A decoded byte stream is at most MaxBytes long.
MaxBytes == 4

\* An instruction sequence drawn as an input has at most MaxInstrs instructions.
MaxInstrs == 3

\* The opcode byte of each instruction is its position in this list, one
\* opcode for each family: push of a constant-pool value, extern field fetch
\* (typed by the opcode), arithmetic, forward branch, output write (typed).
Opcodes ==
  << "PushConst", "PushExternFloat", "PushExternVec4", "Add",
     "JumpIfZero", "StoreFloat", "StoreVec4" >>

OpcodeOf(name) == CHOOSE c \in 1 .. Len(Opcodes) : Opcodes[c] = name

\* The number of operand bytes that follow each opcode byte.
OperandBytes ==
  [ PushConst       |-> 1,    \* index into the constant pool
    PushExternFloat |-> 2,    \* extern kind, field index
    PushExternVec4  |-> 2,    \* extern kind, field index
    Add             |-> 0,
    JumpIfZero      |-> 2,    \* u16 little-endian: instructions to skip
    StoreFloat      |-> 1,    \* constant-buffer slot
    StoreVec4       |-> 1 ]   \* constant-buffer slot

\* One decoded instruction: the opcode with its operands a and b (0 if unused).
Instr(op, a, b) == [op |-> op, a |-> a, b |-> b]

InstrLen(i) == 1 + OperandBytes[i.op]

\* The byte values 0 .. 255 wrap: every operand is stored in fixed width.
ByteRange == 256

\* A variant of the encoder that writes the branch operand high byte first.
encode_big_endian(i) ==
    IF i.op = "Add" THEN << OpcodeOf(i.op) >>
    ELSE IF i.op \in {"PushExternFloat", "PushExternVec4"}
         THEN << OpcodeOf(i.op), i.a, i.b >>
    ELSE IF i.op = "JumpIfZero"
         THEN << OpcodeOf(i.op), i.a \div ByteRange, i.a % ByteRange >>
    ELSE << OpcodeOf(i.op), i.a >>

\* The bytes of one instruction, little-endian.
encode(i) ==
    IF i.op = "Add" THEN << OpcodeOf(i.op) >>
    ELSE IF i.op \in {"PushExternFloat", "PushExternVec4"}
         THEN << OpcodeOf(i.op), i.a, i.b >>
    ELSE IF i.op = "JumpIfZero"
         THEN << OpcodeOf(i.op), i.a % ByteRange, i.a \div ByteRange >>
    ELSE << OpcodeOf(i.op), i.a >>

\* The byte stream of an instruction sequence.
RECURSIVE encode_all(_)
encode_all(instrs) ==
    IF instrs = <<>> THEN <<>>
    ELSE encode(Head(instrs)) \o encode_all(Tail(instrs))

\* The results of parse_all: the whole sequence, or a decode failure.
Parsed(instrs) == [ok |-> TRUE, instrs |-> instrs, err |-> "none"]
DecodeFault(why) == [ok |-> FALSE, instrs |-> <<>>, err |-> why]

\* The instruction whose opcode byte is at position i; its operands are in range.
decode(bytes, i) ==
    LET op == Opcodes[bytes[i]]
    IN  IF op = "Add" THEN Instr(op, 0, 0)
        ELSE IF op \in {"PushExternFloat", "PushExternVec4"}
             THEN Instr(op, bytes[i + 1], bytes[i + 2])
        ELSE IF op = "JumpIfZero"
             THEN Instr(op, bytes[i + 1] + ByteRange * bytes[i + 2], 0)
        ELSE Instr(op, bytes[i + 1], 0)

\* A variant of the parser that stops at a truncated instruction and returns
\* what it decoded before it.
RECURSIVE parse_from_lenient(_, _, _)
parse_from_lenient(bytes, i, acc) ==
    IF i > Len(bytes) THEN Parsed(acc)
    ELSE IF bytes[i] \notin 1 .. Len(Opcodes) THEN DecodeFault("unknown opcode")
    ELSE IF i + OperandBytes[Opcodes[bytes[i]]] > Len(bytes) THEN Parsed(acc)
    ELSE IF /\ Opcodes[bytes[i]] \in {"PushExternFloat", "PushExternVec4"}
            /\ bytes[i + 1] >= Len(TfxExternNames)
         THEN DecodeFault("invalid extern")
    ELSE parse_from_lenient(bytes, i + 1 + OperandBytes[Opcodes[bytes[i]]],
                            Append(acc, decode(bytes, i)))

\* The parser's loop from position i with acc decoded so far: an unknown
\* opcode byte, operands that run past the end of the stream, or an extern
\* kind byte that is no TfxExtern discriminant fail the whole decode.
RECURSIVE parse_from(_, _, _)
parse_from(bytes, i, acc) ==
    IF i > Len(bytes) THEN Parsed(acc)
    ELSE IF bytes[i] \notin 1 .. Len(Opcodes) THEN DecodeFault("unknown opcode")
    ELSE IF i + OperandBytes[Opcodes[bytes[i]]] > Len(bytes) THEN DecodeFault("truncated")
    ELSE IF /\ Opcodes[bytes[i]] \in {"PushExternFloat", "PushExternVec4"}
            /\ bytes[i + 1] >= Len(TfxExternNames)
         THEN DecodeFault("invalid extern")
    ELSE parse_from(bytes, i + 1 + OperandBytes[Opcodes[bytes[i]]],
                    Append(acc, decode(bytes, i)))

parse_all_lenient(bytes) == parse_from_lenient(bytes, 1, <<>>)

\* TfxBytecodeOp::parse_all(&bytes, Endian::Little)
parse_all(bytes) == parse_from(bytes, 1, <<>>)

\* All byte streams of at most n bytes. The byte values are every opcode,
\* small operands, and 255 as a byte that is neither an opcode nor a
\* TfxExtern discriminant.
ByteStreams(n) ==
    UNION {[1 .. k -> (0 .. Len(Opcodes)) \cup {ByteRange - 1}] : k \in 0 .. n}

\* All programs of at most n of the instructions drawn.
Programs(n) ==
    LET Instrs ==
          { Instr("PushConst", 0, 0), Instr("PushConst", 1, 0),
            Instr("PushExternFloat", View, 0), Instr("PushExternVec4", View, 0),
            Instr("Add", 0, 0),
            Instr("JumpIfZero", 1, 0), Instr("JumpIfZero", ByteRange + 1, 0),
            Instr("StoreFloat", 0, 0), Instr("StoreFloat", 1, 0),
            Instr("StoreVec4", 1, 0) }
    IN  UNION {[1 .. k -> Instrs] : k \in 0 .. n}

\* No stream is at hand.
NoStream == [src |-> <<>>, cut |-> -1, bytes |-> <<>>, out |-> NoneOpt]

\* The stream at hand is decoded.
ParseAll ==
    /\ codec.out = NoneOpt
    /\ codec' = [codec EXCEPT !.out = Some(parse_all(codec.bytes))]
    /\ UNCHANGED <<resolverVars, concVars, load, vmVars>>

---------------------------------------------------------------------------
\* The technique loader (crates/alkahest-renderer/src/loaders/technique.rs).
\* The package store and the GPU device are oracles: what they answer for a
\* tag is part of the loader's input.

\* How a loader call ends: anyhow Ok, anyhow Err, or a panic from unwrap().
Loaded(v) == [kind |-> "Ok", val |-> Some(v), why |-> "none"]
Failed(why) == [kind |-> "Err", val |-> NoneOpt, why |-> why]
Panicked(why) == [kind |-> "Panic", val |-> NoneOpt, why |-> why]

\* What the store and the device answer for a sampler tag.
SamplerCases ==
    {"ok", "no_entry", "type_mismatch", "read_fail", "create_fail", "null"}

\* pub fn load_sampler
load_sampler(s) ==
    IF s = "no_entry" THEN Failed("Sampler entry not found")
    ELSE IF s = "type_mismatch" THEN Failed("Sampler header type mismatch")
    ELSE IF s = "read_fail" THEN Panicked("read_tag(sampler_header_ref).unwrap()")
    ELSE IF s = "create_fail" THEN Failed("CreateSamplerState")
    ELSE IF s = "null" THEN Panicked("sampler.unwrap()")
    ELSE Loaded("ID3D11SamplerState")

\* `for sampler in shader.samplers.iter() { stage.samplers.push(load_sampler(..).ok()) }`
\* from sampler i on, with acc pushed so far: a panic ends the loop.
RECURSIVE push_samplers(_, _, _)
push_samplers(samplers, i, acc) ==
    IF i > Len(samplers) THEN Loaded(acc)
    ELSE LET s == load_sampler(samplers[i])
         IN  IF s.kind = "Panic" THEN s
             ELSE push_samplers(samplers, i + 1,
                                Append(acc, IF s.kind = "Ok" THEN s.val ELSE NoneOpt))

\* cb is what the stage's constant-buffer source is (constant_buffer tag,
\* inline unk50 data, or neither) and what the store and the device answer.
\* `let cbuffer = if shader.constant_buffer.is_some() { .. } else if !shader.unk50.is_empty() { .. } else { None }`
create_cbuffer(cb) ==
    IF cb = "no_entry" THEN Panicked("get_entry(constant_buffer).unwrap()")
    ELSE IF cb = "read_fail" THEN Panicked("read_tag(buffer_header_ref).unwrap()")
    ELSE IF cb \in {"create_fail", "unk50_create_fail"}
         THEN Panicked("create_array_init(..).unwrap()")
    ELSE IF cb = "none" THEN Loaded(NoneOpt)
    ELSE Loaded(Some("ConstantBufferCached"))

\* An STechniqueShader with the oracles' answers for its tags.
StageInput(shader, cb, bytecode, samplers) ==
    [shader |-> shader, cb |-> cb, bytecode |-> bytecode, samplers |-> samplers]

\* TfxBytecodeInterpreter::new(opcodes)
NewInterpreter(opcodes) == [opcodes |-> opcodes]

\* `match TfxBytecodeOp::parse_all(..) { Ok(opcodes) => Some(TfxBytecodeInterpreter::new(opcodes)), Err(e) => None }`
bytecode_of(parsed) ==
    IF parsed.ok THEN Some(NewInterpreter(parsed.instrs)) ELSE NoneOpt

\* fn load_technique_stage: Ok(None) without a shader; the constant buffer,
\* the bytecode, the shader module and the samplers in this order.
load_technique_stage(sh, stage) ==
    IF sh.shader = "none" THEN Loaded(NoneOpt)
    ELSE IF create_cbuffer(sh.cb).kind # "Ok" THEN create_cbuffer(sh.cb)
    ELSE IF sh.shader = "fail" THEN Failed("Failed to load shader module")
    ELSE IF push_samplers(sh.samplers, 1, <<>>).kind # "Ok"
         THEN push_samplers(sh.samplers, 1, <<>>)
    ELSE Loaded(Some([stage |-> stage,
                      samplers |-> push_samplers(sh.samplers, 1, <<>>).val[1],
                      cbuffer |-> create_cbuffer(sh.cb).val[1],
                      bytecode |-> bytecode_of(parse_all(sh.bytecode))]))

\* TfxShaderStage of the four stages of a Technique, in the order
\* load_technique loads them.
StageNames == <<"Vertex", "Geometry", "Pixel", "Compute">>

\* An STechnique behind a tag: whether read_tag_struct can read it, and the
\* shader records of its four stages.
TechniqueInput(readable, stages) == [readable |-> readable, stages |-> stages]

\* The stages of load_technique's struct literal from stage i on, each with
\* `?`, with acc loaded so far.
RECURSIVE load_stages(_, _, _)
load_stages(stages, i, acc) ==
    IF i > Len(StageNames) THEN Loaded(acc)
    ELSE LET s == load_technique_stage(stages[i], StageNames[i])
         IN  IF s.kind # "Ok" THEN s
             ELSE load_stages(stages, i + 1, Append(acc, s.val[1]))

\* pub fn load_technique
load_technique(tech) ==
    IF ~tech.readable THEN Failed("read_tag_struct")
    ELSE load_stages(tech.stages, 1, <<>>)

\* The shader records the loader's inputs are drawn from: streams that
\* decode, one cut inside an operand and one with an unknown opcode.
StageBytecodes == {<<OpcodeOf("Add")>>, <<OpcodeOf("PushConst")>>, <<0>>}
NoShader == StageInput("none", "none", <<>>, <<>>)

StageInputs ==
    {NoShader} \cup
    {StageInput(shader, cb, bytecode, samplers) :
        shader \in {"ok", "fail"}, cb \in {"none", "tag_ok", "no_entry"},
        bytecode \in StageBytecodes,
        samplers \in {<<>>, <<"ok", "no_entry">>, <<"read_fail">>}}

\* Every constant-buffer and sampler case, for a stage loaded on its own.
WideStageInputs ==
    StageInputs \cup
    {StageInput("ok", cb, bytecode, samplers) :
        cb \in {"none", "tag_ok", "no_entry", "read_fail", "create_fail",
                "unk50_ok", "unk50_create_fail"},
        bytecode \in StageBytecodes,
        samplers \in {<<s>> : s \in SamplerCases}}

PlainStage == StageInput("ok", "none", <<OpcodeOf("Add")>>, <<>>)

\* Techniques: any vertex and pixel stage; geometry and compute absent or plain.
TechniqueInputs ==
    {TechniqueInput(FALSE, <<PlainStage, NoShader, PlainStage, NoShader>>)} \cup
    {TechniqueInput(TRUE, <<v, g, p, c>>) :
        v \in StageInputs, g \in {NoShader, PlainStage},
        p \in StageInputs, c \in {NoShader, PlainStage}}

\* The loader has not been called.
NoLoad == [op |-> "none", in |-> <<>>, stage |-> "none", out |-> Loaded(NoneOpt)]

\* load_technique(gctx, hash) for the technique behind hash.
LoadTechnique ==
    /\ load.op = "none"
    /\ \E tech \in TechniqueInputs :
         load' = [op |-> "load_technique", in |-> tech, stage |-> "none",
                  out |-> load_technique(tech)]
    /\ UNCHANGED <<resolverVars, concVars, codec, vmVars>>

\* load_technique_stage(gctx, &shader, stage)
LoadTechniqueStage ==
    /\ load.op = "none"
    /\ \E sh \in WideStageInputs, k \in 1 .. Len(StageNames) :
         load' = [op |-> "load_technique_stage", in |-> sh, stage |-> StageNames[k],
                  out |-> load_technique_stage(sh, StageNames[k])]
    /\ UNCHANGED <<resolverVars, concVars, codec, vmVars>>

\* load_sampler(gctx, hash)
LoadSampler ==
    /\ load.op = "none"
    /\ \E s \in SamplerCases :
         load' = [op |-> "load_sampler", in |-> s, stage |-> "none",
                  out |-> load_sampler(s)]
    /\ UNCHANGED <<resolverVars, concVars, codec, vmVars>>

\* An index buffer tag with the answers of the store and the device for it,
\* and the two header fields load_index_buffer uses.
IndexBufferInput(case, data_size, is_32bit) ==
    [case |-> case, data_size |-> data_size, is_32bit |-> is_32bit]

\* pub(crate) fn load_index_buffer: every store and device failure is
\* returned with `?`; only `buffer.unwrap()` on a created buffer can panic.
load_index_buffer(ib) ==
    IF ib.case = "no_entry" THEN Failed("Entry not found")
    ELSE IF ib.case = "header_fail" THEN Failed("Failed to read header data")
    ELSE IF ib.case = "read_fail" THEN Failed("Failed to read buffer data")
    ELSE IF ib.case = "create_fail" THEN Failed("CreateBuffer")
    ELSE IF ib.case = "null" THEN Panicked("buffer.unwrap()")
    ELSE Loaded([buffer |-> "ID3D11Buffer", size |-> ib.data_size,
                 format |-> IF ib.is_32bit THEN "R32_UINT" ELSE "R16_UINT"])

\* load_index_buffer(gctx, hash)
LoadIndexBuffer ==
    /\ load.op = "none"
    /\ \E case \in {"ok", "no_entry", "header_fail", "read_fail", "create_fail", "null"},
          data_size \in {0, 6}, is_32bit \in BOOLEAN :
         load' = [op |-> "load_index_buffer",
                  in |-> IndexBufferInput(case, data_size, is_32bit),
                  stage |-> "none",
                  out |-> load_index_buffer(IndexBufferInput(case, data_size, is_32bit))]
    /\ UNCHANGED <<resolverVars, concVars, codec, vmVars>>

\* No interpreter exists.
NoImage == <<>>
NoInterpreter ==
    [state |-> "None", result |-> "none", program |-> <<>>, ip |-> 1,
     stack |-> <<>>, staged |-> <<>>, entry |-> NoImage, trace |-> <<>>]

---------------------------------------------------------------------------
\* The bytecode interpreter (crate::tfx::bytecode::interpreter::
\* TfxBytecodeInterpreter, after section 4.4 of the design): Ready ->
\* Evaluating -> Halted, one instruction pointer, a value stack, output
\* writes staged until the evaluation completes.

\* The constant-buffer slots an output write can name.
Slots == {0, 1}

\* The constant pool of the stage: pool index -> value.
ConstantPool == [c \in {0, 1} |-> Val("f32", <<c>>)]

\* The image a stage's constant buffer was created with.
Image(bits) == [s \in Slots |-> Val("f32", <<bits + s>>)]

\* No output staged.
NoWrites == <<>>

\* TfxBytecodeInterpreter::new(opcodes), before any evaluation.
Ready(program, image) ==
    [state |-> "Ready", result |-> "none", program |-> program, ip |-> 1,
     stack |-> <<>>, staged |-> NoWrites, entry |-> image, trace |-> <<>>]

\* The type an extern fetch opcode asks for, and the byte offset its field
\* index addresses.
FetchOps == {"PushExternFloat", "PushExternVec4"}
FetchType(i) == IF i.op = "PushExternFloat" THEN "f32" ELSE "Vec4"
FetchOffset(i) == i.b * SizeOf(FetchType(i))

\* The interpreter after the instruction at ip ran without a fault and the
\* instruction pointer moved to next.
advanced(m, next, stack) ==
    [m EXCEPT !.ip = next, !.stack = stack, !.trace = Append(m.trace, m.ip)]

\* An unrecoverable opcode fault: Halted/aborted, the staged output dropped.
aborted(m) ==
    [m EXCEPT !.state = "Halted", !.result = "aborted", !.staged = NoWrites,
              !.trace = Append(m.trace, m.ip)]

\* A variant of the branch whose operand counts instructions backwards.
branch_target_backward(ip, n) == IF n < ip THEN ip - n ELSE 1

\* The target of a taken branch at ip: n instructions are skipped.
branch_target(ip, n) == ip + 1 + n

\* A variant of the output write that writes the destination image at once.
write_output_through(m, image, slot, v) ==
    [vm |-> advanced(m, m.ip + 1, m.stack), image |-> [image EXCEPT ![slot] = v]]

\* Output write: the value is staged for slot; the image is not touched.
write_output(m, image, slot, v) ==
    [vm |-> [advanced(m, m.ip + 1, m.stack) EXCEPT !.staged = (slot :> v) @@ m.staged],
     image |-> image]

Top(stack) == stack[Len(stack)]
Pop(stack, n) == SubSeq(stack, 1, Len(stack) - n)

\* One instruction other than an extern fetch, on interpreter m and the
\* destination image: the interpreter and the image afterwards.
execute(m, image, i) ==
    IF i.op = "PushConst"
    THEN IF i.a \in DOMAIN ConstantPool
         THEN [vm |-> advanced(m, m.ip + 1, Append(m.stack, ConstantPool[i.a])),
               image |-> image]
         ELSE [vm |-> aborted(m), image |-> image]
    ELSE IF i.op = "Add"
    THEN IF Len(m.stack) >= 2 /\ Top(m.stack).ty = Top(Pop(m.stack, 1)).ty
         THEN [vm |-> advanced(m, m.ip + 1,
                         Append(Pop(m.stack, 2),
                                Val(Top(m.stack).ty,
                                    <<Top(m.stack).bits[1] + Top(Pop(m.stack, 1)).bits[1]>>))),
               image |-> image]
         ELSE [vm |-> aborted(m), image |-> image]
    ELSE IF i.op = "JumpIfZero"
    THEN IF Len(m.stack) >= 1 /\ Top(m.stack).ty = "f32"
         THEN [vm |-> advanced(m, IF Top(m.stack).bits = <<0>>
                                  THEN branch_target(m.ip, i.a) ELSE m.ip + 1,
                               Pop(m.stack, 1)),
               image |-> image]
         ELSE [vm |-> aborted(m), image |-> image]
    ELSE IF /\ Len(m.stack) >= 1
            /\ i.a \in Slots
            /\ Top(m.stack).ty = (IF i.op = "StoreFloat" THEN "f32" ELSE "Vec4")
         THEN write_output(m, image, i.a, Top(m.stack))
         ELSE [vm |-> aborted(m), image |-> image]

\* The image with the staged writes of a completed evaluation copied in.
commit(image, staged) ==
    [s \in Slots |-> IF s \in DOMAIN staged THEN staged[s] ELSE image[s]]

\* The instructions the interpreter's programs are drawn from: a constant,
\* a fetch for each outcome of the resolver, arithmetic, a branch, and the
\* two typed output writes.
VmPrograms ==
    LET VmInstrs ==
          { Instr("PushConst", 0, 0),
            Instr("PushExternFloat", View, 0),          \* Value, or ExternNotSet
            Instr("PushExternVec4", View, 0),           \* InvalidType
            Instr("PushExternFloat", View, 2),          \* FieldNotFound
            Instr("PushExternFloat", View, 144),        \* Unimplemented (unk240)
            Instr("PushExternFloat", SoftDeform, 0),    \* ExternNotFound
            Instr("Add", 0, 0),
            Instr("JumpIfZero", 1, 0),
            Instr("StoreFloat", 0, 0),
            Instr("StoreVec4", 1, 0) }
    IN  UNION {[1 .. k -> VmInstrs] : k \in 0 .. MaxInstrs}

\* The programs whose evaluations are followed to their end: every way the
\* instruction pointer moves (step, taken and untaken branch, a branch past
\* the end, a fault).
CorePrograms ==
    LET CoreInstrs ==
          { Instr("PushConst", 0, 0),
            Instr("PushExternFloat", View, 0),
            Instr("Add", 0, 0),
            Instr("JumpIfZero", 1, 0),
            Instr("JumpIfZero", ByteRange + 1, 0),
            Instr("StoreFloat", 0, 0) }
    IN  UNION {[1 .. k -> CoreInstrs] : k \in 0 .. MaxInstrs}

AtInstr == vm.state = "Evaluating" /\ vm.ip <= Len(vm.program)

\* The loader makes the stage's interpreter from decoded bytecode, one of
\* programs.
NewInterpreterOf(programs) ==
    /\ vm.state = "None"
    /\ \E program \in programs : vm' = Ready(program, cbuffer)
    /\ UNCHANGED <<resolverVars, concVars, loadVars, cbuffer>>

VmNew == NewInterpreterOf(VmPrograms)

VmNewCore == NewInterpreterOf(CorePrograms)

\* A draw starts evaluating the stage's bytecode.
VmBegin ==
    /\ vm.state = "Ready"
    /\ vm' = [vm EXCEPT !.state = "Evaluating", !.entry = cbuffer]
    /\ UNCHANGED <<resolverVars, concVars, loadVars, cbuffer>>

\* The instruction at ip is an extern fetch: get_value_or_default pushes
\* the field's value or the type's default, and records a failure.
VmFetch ==
    /\ AtInstr
    /\ vm.program[vm.ip].op \in FetchOps
    /\ \E i \in {vm.program[vm.ip]} :
         \E g \in {get_value_or_default(storage, errors, i.a, FetchOffset(i), FetchType(i))},
            r \in {get_value_inner(storage, i.a, FetchOffset(i), FetchType(i))} :
                /\ vm' = advanced(vm, vm.ip + 1, Append(vm.stack, g.out))
                /\ errors' = g.errors
                /\ failed' = LogFailure(failed,
                                        [ext |-> i.a, offset |-> FetchOffset(i),
                                         ty |-> FetchType(i), tag |-> r.tag])
                /\ UNCHANGED <<storage, req, ret, concVars, loadVars, cbuffer>>

\* The instruction at ip is any other opcode.
VmExecute ==
    /\ AtInstr
    /\ vm.program[vm.ip].op \notin FetchOps
    /\ \E x \in {execute(vm, cbuffer, vm.program[vm.ip])} :
         /\ vm' = x.vm
         /\ cbuffer' = x.image
         /\ UNCHANGED <<resolverVars, concVars, loadVars>>

\* The instruction pointer walked off the end: Halted/completed, and the
\* staged writes reach the constant-buffer image.
VmComplete ==
    /\ vm.state = "Evaluating"
    /\ vm.ip > Len(vm.program)
    /\ vm' = [vm EXCEPT !.state = "Halted", !.result = "completed"]
    /\ cbuffer' = commit(cbuffer, vm.staged)
    /\ UNCHANGED <<resolverVars, concVars, loadVars>>

---------------------------------------------------------------------------
\* Specifications.

\* The resolver in use: slots are set and cleared, get_value is called.
Init ==
    /\ storage = DefaultSlots
    /\ errors = NoErrors
    /\ req = NoReq
    /\ ret = NoCall
    /\ failed = NoFailures
    /\ thread = AllIdle
    /\ lock = Unlocked
    /\ codec = NoStream
    /\ load = NoLoad
    /\ vm = NoInterpreter
    /\ cbuffer = NoImage

Next ==
    \/ \E k \in SpecKinds \cap Backed :
         \E slot \in {NoneOpt, Some(SeedInstance(k, MaxSeed))} : SetSlot(k, slot)
    \/ Reset
    \/ \E ext \in SpecKinds, offset \in SpecOffsets, T \in SpecTypes :
         GetValue(ext, offset, T)

Spec == Init /\ [][Next]_vars

\* One lookup on a given storage: the inputs are drawn, the lookup is applied.
InitInner ==
    /\ storage \in InnerStorages
    /\ errors = NoErrors
    /\ req \in InnerRequests
    /\ ret = NoCall
    /\ failed = NoFailures
    /\ thread = AllIdle
    /\ lock = Unlocked
    /\ codec = NoStream
    /\ load = NoLoad
    /\ vm = NoInterpreter
    /\ cbuffer = NoImage

NextInner ==
    CallGetField \/ CallGetValueInner \/ CallGetFieldPath \/ CallView \/ CallViewUnchecked

SpecInner == InitInner /\ [][NextInner]_vars

\* The resolver's two entry points in use on a storage whose View slot is
\* set and cleared.
NextDiag ==
    \/ \E slot \in {NoneOpt, Some(SeedInstance(View, MaxSeed))} : SetSlot(View, slot)
    \/ Reset
    \/ \E ext \in DiagKinds, offset \in DiagOffsets, T \in DiagTypes :
         GetValue(ext, offset, T)
    \/ \E ext \in DiagKinds, offset \in DiagOffsets, T \in DiagTypes :
         GetValueOrDefault(ext, offset, T)

SpecDiag == Init /\ [][NextDiag]_vars

\* The resolver asked for one offset of several kinds: \h0c is unimplemented
\* in Frame and unregistered in View, \h240 is unimplemented in View and
\* unregistered in Frame, and None has no struct.
NextRecord ==
    \/ \E k \in {Frame, View} :
         \E slot \in {NoneOpt, Some(SeedInstance(k, MaxSeed))} : SetSlot(k, slot)
    \/ Reset
    \/ \E ext \in {None, Frame, View}, offset \in {\h0c, \h240} :
         GetValue(ext, offset, "f32")

SpecRecord == Init /\ [][NextRecord]_vars

\* Evaluators run get_value concurrently on one shared ExternStorage, beside
\* readers of the error map.
InitConc ==
    /\ storage \in {DefaultSlots,
                    [DefaultSlots EXCEPT ![View] = Some(SeedInstance(View, MaxSeed))]}
    /\ errors = NoErrors
    /\ req = NoReq
    /\ ret = NoCall
    /\ failed = NoFailures
    /\ thread = AllIdle
    /\ lock = Unlocked
    /\ codec = NoStream
    /\ load = NoLoad
    /\ vm = NoInterpreter
    /\ cbuffer = NoImage

NextConc ==
    \/ \E t \in Evaluators, ext \in DiagKinds, offset \in DiagOffsets, T \in DiagTypes :
         ConcCall(t, get_value_inner(storage, ext, offset, T), ext, offset, T)
    \/ \E t \in Evaluators : ConcWrite(t)
    \/ \E t \in Evaluators : ConcEntry(t)
    \/ \E t \in Evaluators : ConcAddAssign(t)
    \/ \E t \in Evaluators : ConcReturn(t)
    \/ ReadErrors
    \/ ReadDone

SpecConc == InitConc /\ [][NextConc]_vars

\* The parser on its own: a stream is an arbitrary byte sequence, or the
\* encoding of a program cut after any number of bytes.
InitCodec ==
    /\ storage = DefaultSlots
    /\ errors = NoErrors
    /\ req = NoReq
    /\ ret = NoCall
    /\ failed = NoFailures
    /\ thread = AllIdle
    /\ lock = Unlocked
    /\ \/ \E bytes \in ByteStreams(MaxBytes) :
             codec = [src |-> <<>>, cut |-> -1, bytes |-> bytes, out |-> NoneOpt]
       \/ \E src \in Programs(MaxInstrs) :
             \E cut \in 0 .. Len(encode_all(src)) :
                codec = [src |-> src, cut |-> cut,
                         bytes |-> SubSeq(encode_all(src), 1, cut), out |-> NoneOpt]
    /\ load = NoLoad
    /\ vm = NoInterpreter
    /\ cbuffer = NoImage

SpecCodec == InitCodec /\ [][ParseAll]_vars

\* The loaders: techniques, single stages, samplers and index buffers are
\* loaded.
NextLoad == LoadTechnique \/ LoadTechniqueStage \/ LoadSampler \/ LoadIndexBuffer

SpecLoad == Init /\ [][NextLoad]_vars

\* A stage's interpreter is made and the render thread evaluates it once,
\* against an ExternStorage the renderer populated (or not) for the frame.
InitVm ==
    /\ storage \in {DefaultSlots,
                    [DefaultSlots EXCEPT ![View] = Some(SeedInstance(View, MaxSeed))]}
    /\ errors = NoErrors
    /\ req = NoReq
    /\ ret = NoCall
    /\ failed = NoFailures
    /\ thread = AllIdle
    /\ lock = Unlocked
    /\ codec = NoStream
    /\ load = NoLoad
    /\ cbuffer \in {Image(8), Image(4)}
    /\ vm = NoInterpreter

\* The steps of an evaluation.
VmRun == VmBegin \/ VmFetch \/ VmExecute \/ VmComplete

NextVm == VmNew \/ VmRun

SpecVm == InitVm /\ [][NextVm]_vars

NextVmCore == VmNewCore \/ VmRun

\* The render thread runs an evaluation synchronously to its end.
SpecVmFair == InitVm /\ [][NextVmCore]_vars /\ WF_vars(VmRun)

---------------------------------------------------------------------------
\* Properties of the field lookup (SpecInner).

\* A lookup that reached the struct: get_field itself, or get_value_inner on
\* a populated slot.
FieldLookupDone ==
    /\ ret.op \in {"get_field", "get_value_inner"}
    /\ ret.req.ext \in Backed
    /\ storage[ret.req.ext] # NoneOpt

\* The rows of the looked-up struct's table that register the looked-up offset.
RowsAtOffset ==
    {i \in 1 .. Len(FieldsOf(ret.req.ext)) : FieldsOf(ret.req.ext)[i].off = ret.req.offset}

C2_UnimplementedAlways ==
    FieldLookupDone =>
        \A i \in RowsAtOffset :
            FieldsOf(ret.req.ext)[i].flag = "true" => ret.out = Unimplemented

\* View's unk240 (a Mat4, unimplemented(true)) holding non-default bits and
\* asked for as f32.
C2_Witness ==
    /\ ret.op = "get_field"
    /\ ret.req = Request(View, \h240, "f32")
    /\ storage[View][1][14] = Val("Mat4", <<14>>)
    /\ ret.out = Unimplemented

\* C3: a Deferred whose unk00 (offset 0x00) holds (1.0, 2.0, 3.0, 4.0) answers
\* get_field::<Vec4>(0x00) with Unimplemented, not with the vector.
C3_DeferredUnk00Unimplemented ==
    ( /\ ret.op = "get_field"
      /\ storage[Deferred] = Some(TestDeferred)
      /\ ret.req = Request(Deferred, \h00, "Vec4") )
        => ret.out = Unimplemented

\* C4: on a populated instance, a lookup at a registered offset whose field is
\* not unimplemented(true), with a type other than the field's declared type,
\* returns InvalidType; and a lookup that returns a Value returns one of the
\* type registered at that offset.
C4_InvalidTypeNeverValue ==
    FieldLookupDone =>
        \A i \in RowsAtOffset :
            LET f == FieldsOf(ret.req.ext)[i]
            IN  /\ (f.flag # "true" /\ f.ty # ret.req.ty)
                       => ret.out = InvalidType(<<f.name, ": ", f.ty>>)
                /\ ret.out.tag = "Value"
                       => (f.ty = ret.req.ty /\ ret.out.v.ty = f.ty)

\* View's resolution_width (f32) holding non-default bits, asked for as Vec4.
C4_Witness ==
    /\ ret.op = "get_field"
    /\ storage[View] = Some(TestView)
    /\ ret.req = Request(View, \h00, "Vec4")
    /\ ret.out.tag = "InvalidType"

\* C5: on a populated instance, a lookup at an offset that no row of the
\* struct's table registers returns FieldNotFound for every requested type,
\* also when the offset lies inside a registered field's bytes.
C5_UnregisteredOffsetNotFound ==
    FieldLookupDone => (RowsAtOffset = {} => ret.out = FieldNotFound)

\* View at 0x44, inside world_to_camera (a Mat4 at 0x40), asked for as Mat4.
C5_Witness ==
    /\ ret.op = "get_field"
    /\ storage[View] # NoneOpt
    /\ ret.req = Request(View, \h44, "Mat4")
    /\ ret.out = FieldNotFound

\* The variants that name a struct generated by extern_struct!.
StructNames ==
    {"Frame", "View", "Deferred", "DeferredLight", "Transparent", "RigidModel",
     "Decal", "SimpleGeometry"}

\* C6: for every TfxExtern variant other than the eight that have a struct,
\* get_value_inner returns ExternNotFound, for every offset, requested type
\* and storage.
C6_UnbackedExternNotFound ==
    (ret.op = "get_value_inner" /\ DebugExtern(ret.req.ext) \notin StructNames)
        => ret.out = ExternNotFound

\* SoftDeform looked up while every slot of the storage is populated.
C6_Witness ==
    /\ ret.op = "get_value_inner"
    /\ ret.req.ext = SoftDeform
    /\ \A k \in Backed : storage[k] # NoneOpt
    /\ ret.out = ExternNotFound

\* C7: for a variant that has a struct and whose slot is None, get_value_inner
\* returns ExternNotSet for every offset and requested type, registered or
\* not, unimplemented or not.
C7_EmptySlotNotSet ==
    ( /\ ret.op = "get_value_inner"
      /\ DebugExtern(ret.req.ext) \in StructNames
      /\ storage[ret.req.ext] = NoneOpt )
        => ret.out = ExternNotSet

\* View's slot is None while another slot is populated; the offset asked for
\* is the unimplemented unk240.
C7_Witness ==
    /\ ret.op = "get_value_inner"
    /\ ret.req = Request(View, \h240, "Mat4")
    /\ storage[View] = NoneOpt
    /\ storage[Deferred] # NoneOpt
    /\ ret.out = ExternNotSet

---------------------------------------------------------------------------
\* Properties of the diagnostics (Spec).

\* C8: when all failures since the error map was empty are one and the same
\* (kind, offset, type) failure, repeated N times, the map holds exactly one
\* record and its repeat_count is N.
C8_OneRecordCountN ==
    \A h \in DOMAIN failed :
        DOMAIN failed = {h}
            => /\ Cardinality(DOMAIN errors) = 1
               /\ \A key \in DOMAIN errors : errors[key].repeat_count = failed[h]

\* The same failure has happened MaxFail times.
C8_Witness ==
    \E h \in DOMAIN failed :
        /\ DOMAIN failed = {h}
        /\ failed[h] = MaxFail
        /\ Cardinality(DOMAIN errors) = 1

\* The (kind, offset, type) triples of the failures so far.
FailedRequests == {<<h.ext, h.offset, h.ty>> : h \in DOMAIN failed}

FieldLevel == {"Unimplemented", "InvalidType", "FieldNotFound"}

C10_OutcomeIgnoresErrorMap ==
    ret.op = "get_value" =>
        LET r == get_value_inner(storage, ret.req.ext, ret.req.offset, ret.req.ty)
        IN  IF r.tag = "Value" THEN ret.out = Ok(r.v)
            ELSE ret.out = Err(ErrorMessage(r, ret.req.ext, ret.req.offset))

\* A failure returned by a call that found its own entry already in the map,
\* left by an earlier occurrence of the same failure.
C10_Witness ==
    /\ ret.op = "get_value"
    /\ ~ret.out.ok
    /\ \E h \in DOMAIN failed :
          /\ <<h.ext, h.offset, h.ty>> = <<ret.req.ext, ret.req.offset, ret.req.ty>>
          /\ failed[h] >= 2

---------------------------------------------------------------------------
\* Properties of get_value_or_default and of the entries' lifecycle (SpecDiag).

\* The key under which get_value counts the failure h.
KeyOfFailure(h) == ErrorKey([tag |-> h.tag], h.ext, h.offset, h.ty)

\* How many of the failures so far are counted under key.
RECURSIVE CountUnder(_, _)
CountUnder(key, hs) ==
    IF hs = {} THEN 0
    ELSE LET h == CHOOSE x \in hs : TRUE
         IN  (IF KeyOfFailure(h) = key THEN failed[h] ELSE 0) + CountUnder(key, hs \ {h})

\* C11: get_value_or_default returns the stored value when the lookup yields
\* Value and the requested type's default on every failure; on a failure the
\* entry get_value keys that failure with exists and has counted it.
C11_ValueOrDefaultRecorded ==
    ret.op = "get_value_or_default" =>
        LET r == get_value_inner(storage, ret.req.ext, ret.req.offset, ret.req.ty)
            key == ErrorKey(r, ret.req.ext, ret.req.offset, ret.req.ty)
        IN  IF r.tag = "Value" THEN ret.out = r.v
            ELSE /\ ret.out = DefaultOf(ret.req.ty)
                 /\ key \in DOMAIN errors
                 /\ errors[key].repeat_count = CountUnder(key, DOMAIN failed)

\* Every failure so far came from get_value_or_default asking for View's
\* unimplemented unk240 as f32: the default came back and the entry counts
\* MaxFail occurrences.
C11_Witness ==
    /\ ret.op = "get_value_or_default"
    /\ ret.req = Request(View, \h240, "f32")
    /\ ret.out = DefaultOf("f32")
    /\ \E key \in DOMAIN errors :
          /\ errors[key].repeat_count = MaxFail
          /\ errors[key].error_type.tag = "Unimplemented"

---------------------------------------------------------------------------
\* Properties of TextureView (SpecInner).

\* C14: view returns None for Null and Some(handle) only for RawSRV(handle),
\* with that same handle; view_unchecked returns the stored handle for RawSRV
\* and the zero sentinel for Null. No valid (non-zero) handle comes out of an
\* absent view.
C14_AbsentViewNoHandle ==
    /\ ret.op = "view" =>
          /\ ret.req.tag = "Null" => ret.out = NoneOpt
          /\ ret.out # NoneOpt => (ret.req.tag = "RawSRV" /\ ret.out = ret.req.srv)
          /\ ret.req.tag = "RawSRV" => ret.out = ret.req.srv
    /\ ret.op = "view_unchecked" =>
          /\ ret.req.tag = "Null" => ret.out = 0
          /\ ret.req.tag = "RawSRV" => (ret.out = ret.req.srv[1] /\ ret.out # 0)

\* view was applied to a Null TextureView read from a Default instance.
C14_Witness ==
    /\ ret.op = "view"
    /\ ret.req = TextureView_Null
    /\ ret.out = NoneOpt

---------------------------------------------------------------------------
\* Lifecycle of the diagnostic records (SpecDiag).

\* C20: across get_value / get_value_or_default calls the diagnostic records
\* are only created or incremented: every entry present has repeat_count >= 1,
\* and every step other than a reset of the ExternStorage keeps each entry and
\* never lowers its repeat_count.
C20_RecordsOnlyGrow ==
    /\ [](\A key \in DOMAIN errors : errors[key].repeat_count >= 1)
    /\ [][Reset \/ (\A key \in DOMAIN errors :
                      /\ key \in DOMAIN errors'
                      /\ errors'[key].repeat_count >= errors[key].repeat_count)]_vars

\* Two distinct records were created and a later successful get_value left
\* both in place.
C20_Witness ==
    /\ Cardinality(DOMAIN errors) = 2
    /\ ret.op = "get_value"
    /\ ret.out.ok

---------------------------------------------------------------------------
\* Concurrent get_value calls (SpecConc).

RECURSIVE SumRepeatCount(_, _)
SumRepeatCount(errs, keys) ==
    IF keys = {} THEN 0
    ELSE LET key == CHOOSE x \in keys : TRUE
         IN  errs[key].repeat_count + SumRepeatCount(errs, keys \ {key})

\* C12: updates of the error map by concurrent get_value calls are serialized
\* (at most one evaluator holds the write guard, and no read guard is alive
\* while one does) and no increment is lost: the repeat_counts add up to the
\* failed resolutions performed, less those still on their way to the map;
\* once every evaluator has returned the sum is the total.
C12_SerializedNoLostIncrement ==
    /\ Cardinality(Writers) <= 1
    /\ Writers # {} => (lock.writer /\ lock.readers = 0)
    /\ lock.readers > 0 => Writers = {}
    /\ SumRepeatCount(errors, DOMAIN errors) + Cardinality(Uncounted) = NumFailed
    /\ (\A t \in Evaluators : thread[t].pc = "idle") =>
          SumRepeatCount(errors, DOMAIN errors) = NumFailed

\* Two evaluators failed on the same field while the other was inside
\* get_value; both have returned and the one entry counts both.
C12_Witness ==
    /\ \A t \in Evaluators : thread[t].pc = "idle"
    /\ Cardinality(DOMAIN errors) = 1
    /\ \E key \in DOMAIN errors : errors[key].repeat_count = 2
    /\ ret.op = "get_value" /\ ~ret.out.ok

---------------------------------------------------------------------------
\* Properties of the bytecode parser (SpecCodec).

RECURSIVE TotalLen(_)
TotalLen(instrs) ==
    IF instrs = <<>> THEN 0 ELSE InstrLen(Head(instrs)) + TotalLen(Tail(instrs))

\* The lengths at which a cut of program src's encoding falls between
\* instructions.
Boundaries(src) == {TotalLen(SubSeq(src, 1, k)) : k \in 0 .. Len(src)}

\* C17: decoding is all-or-nothing: parse_all returns either an instruction
\* sequence that accounts for every input byte or a decode failure with no
\* instructions; a stream cut inside an instruction's operands is a failure.
C17_DecodeAllOrNothing ==
    codec.out # NoneOpt =>
        LET out == codec.out[1]
        IN  /\ out.ok => (TotalLen(out.instrs) = Len(codec.bytes)
                          /\ encode_all(out.instrs) = codec.bytes)
            /\ ~out.ok => out.instrs = <<>>
            /\ (codec.cut >= 0 /\ codec.cut \notin Boundaries(codec.src)) => ~out.ok

\* A two-instruction program cut inside its second instruction's operands
\* was decoded and failed as truncated.
C17_Witness ==
    /\ codec.out # NoneOpt
    /\ Len(codec.src) = 2
    /\ codec.cut \notin Boundaries(codec.src)
    /\ codec.cut > InstrLen(codec.src[1])
    /\ codec.out[1] = DecodeFault("truncated")

\* C18: encoding an instruction sequence and decoding the resulting stream
\* gives back the same opcodes and operands in the same order.
C18_EncodeDecodeRoundTrip ==
    (codec.out # NoneOpt /\ codec.cut = Len(encode_all(codec.src))) =>
        codec.out[1] = Parsed(codec.src)

\* A whole program with a branch whose operand needs both of its bytes was
\* encoded and decoded.
C18_Witness ==
    /\ codec.out # NoneOpt
    /\ codec.cut = Len(encode_all(codec.src))
    /\ \E k \in 1 .. Len(codec.src) : codec.src[k] = Instr("JumpIfZero", ByteRange + 1, 0)
    /\ codec.out[1].ok

---------------------------------------------------------------------------
\* Decode failures in the loader (SpecLoad).

\* The stage has a shader and its bytecode does not decode.
DecodeFails(sh) == sh.shader # "none" /\ ~parse_all(sh.bytecode).ok

\* C13: when a stage's bytecode fails to decode and its shader module loads,
\* load_technique_stage returns the stage with bytecode None; a technique
\* that was read, with a stage whose bytecode fails to decode and no stage
\* whose shader module fails, is returned with every stage that has a shader
\* loaded, the undecodable ones with bytecode None and the others with their
\* interpreter; and no error of load_technique is a decode failure.
C13_DecodeFailureStageReturned ==
    /\ ( /\ load.op = "load_technique_stage"
         /\ DecodeFails(load.in)
         /\ load.in.shader = "ok" ) =>
            /\ load.out.kind = "Ok"
            /\ load.out.val[1] # NoneOpt
            /\ load.out.val[1][1].bytecode = NoneOpt
    /\ ( /\ load.op = "load_technique"
         /\ load.in.readable
         /\ \A k \in 1 .. Len(StageNames) : load.in.stages[k].shader # "fail"
         /\ \E k \in 1 .. Len(StageNames) : DecodeFails(load.in.stages[k]) ) =>
            /\ load.out.kind = "Ok"
            /\ \A k \in 1 .. Len(StageNames) :
                  LET sh == load.in.stages[k]
                      st == load.out.val[1][k]
                  IN  /\ sh.shader = "none" <=> st = NoneOpt
                      /\ DecodeFails(sh) => st[1].bytecode = NoneOpt
                      /\ (sh.shader # "none" /\ ~DecodeFails(sh)) =>
                            st[1].bytecode = bytecode_of(parse_all(sh.bytecode))
    /\ (load.op = "load_technique" /\ load.out.kind = "Err") =>
            load.out.why \in {"read_tag_struct", "Failed to load shader module"}

---------------------------------------------------------------------------
\* Properties of the interpreter (SpecVm, SpecVmFair).

\* C15: a fault anywhere in an evaluation discards all of its output: while
\* the evaluation runs and after it aborted, every constant-buffer slot holds
\* the value it had when the evaluation began; only a completed evaluation
\* changes the image, by exactly its staged writes.
C15_FaultDiscardsOutput ==
    /\ vm.state = "Evaluating" => cbuffer = vm.entry
    /\ (vm.state = "Halted" /\ vm.result = "aborted") =>
          (cbuffer = vm.entry /\ vm.staged = NoWrites)
    /\ (vm.state = "Halted" /\ vm.result = "completed") =>
          cbuffer = commit(vm.entry, vm.staged)

\* An evaluation wrote slot 0 and then faulted on a Vec4 write of an f32.
C15_Witness ==
    /\ vm.state = "Halted"
    /\ vm.result = "aborted"
    /\ Len(vm.trace) = 3
    /\ vm.program[vm.trace[2]] = Instr("StoreFloat", 0, 0)
    /\ vm.program[vm.trace[3]] = Instr("StoreVec4", 1, 0)

\* C16: every evaluation reaches Halted: the instruction pointer strictly
\* increases at every step, so no instruction is executed twice, and an
\* evaluation that is under way leads to Halted (completed or aborted).
C16_EvaluationTerminates ==
    /\ [](\A j, k \in 1 .. Len(vm.trace) : j < k => vm.trace[j] < vm.trace[k])
    /\ [][(vm.state = "Evaluating" /\ vm'.state = "Evaluating") => vm'.ip > vm.ip]_vars
    /\ (vm.state = "Evaluating") ~> (vm.state = "Halted" /\ vm.result \in {"completed", "aborted"})

\* A taken branch skipped an instruction and the evaluation completed.
C16_Witness ==
    /\ vm.state = "Halted"
    /\ vm.result = "completed"
    /\ Len(vm.program) = 3
    /\ vm.program[2].op = "JumpIfZero"
    /\ vm.trace = <<1, 2>>

\* C19: an extern fetch whose resolution is not Value pushes the requested
\* type's default and evaluation continues with the next instruction: the
\* step never halts the evaluation.
C19_FetchFailurePushesDefault ==
    [][(/\ AtInstr
        /\ vm.program[vm.ip].op \in FetchOps
        /\ get_value_inner(storage, vm.program[vm.ip].a, FetchOffset(vm.program[vm.ip]),
                           FetchType(vm.program[vm.ip])).tag # "Value")
       => /\ vm'.state = "Evaluating"
          /\ vm'.ip = vm.ip + 1
          /\ vm'.stack = Append(vm.stack, DefaultOf(FetchType(vm.program[vm.ip])))
          /\ vm'.staged = vm.staged]_vars

\* Fetches failed in two different ways, each pushed a default, and the
\* evaluation went on to complete.
C19_Witness ==
    /\ vm.state = "Halted"
    /\ vm.result = "completed"
    /\ Cardinality(DOMAIN errors) = 2
    /\ vm.trace = <<1, 2, 3>>

---------------------------------------------------------------------------
\* The failure kind of a diagnostic record (SpecRecord).

\* C21: the error_type of a record identifies the outcome that created it:
\* a record created by FieldNotFound and one created by Unimplemented have
\* different error_types, and so have a record created by ExternNotFound
\* and one created by ExternNotSet.
C21_ErrorTypeIdentifiesOutcome ==
    \A h1, h2 \in DOMAIN failed :
        ({h1.tag, h2.tag} \in {{"FieldNotFound", "Unimplemented"},
                               {"ExternNotFound", "ExternNotSet"}})
            => errors[KeyOfFailure(h1)].error_type
                   # errors[KeyOfFailure(h2)].error_type

---------------------------------------------------------------------------
\* Failures of the store and the device in the loaders (SpecLoad).

\* C22: a failed creation of the constant buffer in load_technique_stage or
\* of the buffer in load_index_buffer, and a failed read of the resource's
\* bytes, come back as an error result of the loader; no loader call ends
\* in a panic.
C22_CreationFailurePropagated ==
    /\ ( /\ load.op = "load_technique_stage"
         /\ load.in.shader # "none"
         /\ load.in.cb \in {"read_fail", "create_fail", "unk50_create_fail"} )
            => load.out.kind = "Err"
    /\ ( /\ load.op = "load_index_buffer"
         /\ load.in.case \in {"header_fail", "read_fail", "create_fail"} )
            => load.out.kind = "Err"
    /\ load.out.kind # "Panic"

---------------------------------------------------------------------------
\* What a resolution leaves behind (SpecDiag).

\* C23: a call of get_value or get_value_or_default changes none of the
\* extern slots, and a call whose lookup yields Value leaves the error map
\* as it was: no entry created, no count incremented.
C23_ResolutionReadOnly ==
    [][ret'.op \in {"get_value", "get_value_or_default"} =>
          /\ storage' = storage
          /\ get_value_inner(storage, ret'.req.ext, ret'.req.offset,
                             ret'.req.ty).tag = "Value"
                => errors' = errors]_vars

\* After failures were recorded, get_value_or_default returned View's
\* stored resolution_width.
C23_Witness ==
    /\ ret.op = "get_value_or_default"
    /\ ret.req = Request(View, \h00, "f32")
    /\ storage[View] # NoneOpt
    /\ ret.out = storage[View][1][1]
    /\ Cardinality(DOMAIN errors) >= 1

---------------------------------------------------------------------------
\* Field paths (SpecInner).

\* C24: get_field_path(kind, offset) is Some("<struct name>-><field name>")
\* exactly when the kind has a struct and the offset is registered for it,
\* which is exactly when resolution on a populated instance yields neither
\* ExternNotFound nor FieldNotFound; the slots and the field's
\* unimplemented flag play no part.
C24_FieldPathAgreesWithLookup ==
    ret.op = "get_field_path" =>
        LET ext == ret.req.ext
            offset == ret.req.offset
            populated == [k \in Backed |-> Some(SeedInstance(k, 0))]
            r == get_value_inner(populated, ext, offset, ret.req.ty)
        IN  /\ ret.out # NoneOpt
                <=> (ext \in Backed /\ offset \in RegisteredOffsets(ext))
            /\ ret.out # NoneOpt
                <=> r.tag \notin {"ExternNotFound", "FieldNotFound"}
            /\ ret.out # NoneOpt =>
                  \E i \in 1 .. Len(FieldsOf(ext)) :
                      /\ FieldsOf(ext)[i].off = offset
                      /\ ret.out = Some(<<get_name(ext), "->", FieldsOf(ext)[i].name>>)

\* The path of View's unimplemented unk240 was asked while the view slot is
\* not populated.
C24_Witness ==
    /\ ret.op = "get_field_path"
    /\ ret.req.ext = View
    /\ ret.req.offset = \h240
    /\ storage[View] = NoneOpt
    /\ ret.out = Some(<<"view", "->", "unk240">>)

---------------------------------------------------------------------------
\* Shader-module and sampler failures in load_technique (SpecLoad).

\* C25: load_technique loads the stages in the order vertex, geometry,
\* pixel, compute; a stage without a shader yields None; a technique with a
\* stage whose shader module fails to load is answered with that error,
\* whatever the later stages are, and with no Technique; and a sampler that
\* fails to load leaves None at its position in a stage that is returned.
C25_ShaderFailureAllOrNothing ==
    /\ (load.op = "load_technique_stage" /\ load.in.shader = "none") =>
            load.out = Loaded(NoneOpt)
    /\ ( /\ load.op = "load_technique_stage"
         /\ load.in.shader = "ok"
         /\ load.in.cb \in {"none", "tag_ok", "unk50_ok"} ) =>
            /\ load.out.kind = "Ok"
            /\ load.out.val[1] # NoneOpt
            /\ Len(load.out.val[1][1].samplers) = Len(load.in.samplers)
            /\ \A s \in 1 .. Len(load.in.samplers) :
                  load.out.val[1][1].samplers[s] = NoneOpt
                      <=> load.in.samplers[s] # "ok"
    /\ (load.op = "load_technique" /\ load.in.readable) =>
            /\ load.out.kind = "Ok" =>
                  \A k \in 1 .. Len(StageNames) :
                      /\ load.in.stages[k].shader = "none" <=> load.out.val[1][k] = NoneOpt
                      /\ load.out.val[1][k] # NoneOpt =>
                            load.out.val[1][k][1].stage = StageNames[k]
            /\ \A k \in 1 .. Len(StageNames) :
                  ( /\ load.in.stages[k].shader = "fail"
                    /\ \A j \in 1 .. (k - 1) : load.in.stages[j].shader # "fail" ) =>
                        /\ load.out = Failed("Failed to load shader module")
                        /\ load.out = load_technique(
                               [load.in EXCEPT !.stages =
                                   [j \in 1 .. Len(StageNames) |->
                                       IF j > k THEN NoShader ELSE load.in.stages[j]]])

===========================================================================
